---- MODULE Spec2Model ----
(***************************************************************************)
(* Conway's Game of Life on a wrapping grid: the Universe of src/src/lib.rs *)
(* as a state machine.  The state is the struct's four fields, the name and *)
(* outcome of the last call and the count of the tick() calls that have    *)
(* returned; every public method is one action.                            *)
(*                                                                         *)
(* A panic ends the run: the action that panics leaves the fields as they  *)
(* were at the point of the panic, sets outcome to "panic", and no further *)
(* action is enabled.                                                      *)
(*                                                                         *)
(* The arguments are small: row + h, row * w + column, width * height and  *)
(* generation + 1 stay far from the limits of i32 and u32, so the sums and *)
(* products below are Rust's.                                              *)
(***************************************************************************)
EXTENDS Integers, Sequences, FiniteSets, TLC

VARIABLES
    width, height, cells, generation,   \* the fields of the Universe
    op,                                 \* the last method called
    outcome,                            \* "ok", or "panic" once a call panicked
    ticks                               \* the tick() calls that returned

vars == <<width, height, cells, generation, op, outcome, ticks>>

(***************************************************************************)
(* Bounds of the model.                                                    *)
(***************************************************************************)
\* Spec: every method, on grids of up to MaxWidth x MaxHeight cells.
MaxWidth == 2
MaxHeight == 2
MaxGen == 2
\* SpecTick: tick() alone, on grids of up to MaxTickWidth x MaxTickHeight.
MaxTickWidth == 3
MaxTickHeight == 3
MaxTicks == 1
\* SpecBlinker: tick() alone, on the 5 x 5 grid of tests/web.rs.
BlinkerSide == 5
MaxBlinkerTicks == 4
\* SpecBlock: tick() alone, on grids of 4 to MaxBlockSide cells a side.
MaxBlockSide == 5
MaxBlockTicks == 2
\* SpecShift: the largest grid and the number of ticks.
MaxShiftWidth == 3
MaxShiftHeight == 2
MaxShiftTicks == 1
\* SpecNew: the largest width and height given to new.
MaxNewSide == 3
\* SpecGlider: add_glider(1, 1, _) on the 3 x 3 grid of add_glider's examples.
GliderSide == 3

(***************************************************************************)
(* Rust's primitives.                                                      *)
(***************************************************************************)
\* Option<T>
None == [some |-> FALSE, val |-> 0]
Some(x) == [some |-> TRUE, val |-> x]
unwrap_or(o, d) == IF o.some THEN o.val ELSE d

\* a % b on i32: the remainder truncates toward zero and takes the sign of
\* a.  A zero divisor panics; callers test for it before using Rem.
Rem(a, b) ==
    LET m == a % b
    IN IF a >= 0 \/ m = 0 THEN m ELSE m - b

\* x as usize on an i32: a negative x becomes 2^N - |x| for the pointer
\* width N.  The value is kept as sign and magnitude, so that it stands for
\* the same usize at every pointer width.
as_usize(x) ==
    IF x >= 0 THEN [wrapped |-> FALSE, mag |-> x]
    ELSE [wrapped |-> TRUE, mag |-> -x]

\* u < len for a usize u and a length below 2^31: 2^N - |x| is never below.
usize_lt(u, len) == ~u.wrapped /\ u.mag < len

(***************************************************************************)
(* FixedBitSet, as lib.rs uses it.  A bit set is a sequence of BOOLEAN;    *)
(* bit i is element i + 1.  The writing methods give [ok, bits]: ok is     *)
(* FALSE when the method panics (bit >= length), and bits is then          *)
(* unchanged.                                                              *)
(***************************************************************************)
with_capacity(n) == [i \in 1..n |-> FALSE]

\* self.cells[bit]: bits outside the capacity read as false.
bit_at(bits, u) == usize_lt(u, Len(bits)) /\ bits[u.mag + 1]

bit_set(bits, u, enabled) ==
    IF usize_lt(u, Len(bits))
    THEN [ok |-> TRUE, bits |-> [bits EXCEPT ![u.mag + 1] = enabled]]
    ELSE [ok |-> FALSE, bits |-> bits]

bit_toggle(bits, u) ==
    IF usize_lt(u, Len(bits))
    THEN [ok |-> TRUE, bits |-> [bits EXCEPT ![u.mag + 1] = ~bits[u.mag + 1]]]
    ELSE [ok |-> FALSE, bits |-> bits]

\* count_ones(..): the number of bits set among bits first..last, summed by
\* halves.
RECURSIVE count_ones_from(_, _, _)
count_ones_from(bits, first, last) ==
    IF first > last THEN 0
    ELSE IF first = last THEN (IF bits[first] THEN 1 ELSE 0)
    ELSE LET middle == (first + last) \div 2
         IN count_ones_from(bits, first, middle)
                + count_ones_from(bits, middle + 1, last)

count_ones(bits) == count_ones_from(bits, 1, Len(bits))

(***************************************************************************)
(* Universe.  self is the record [width, height, cells, generation].       *)
(***************************************************************************)
Self == [width |-> width, height |-> height, cells |-> cells,
         generation |-> generation]

\* new, if a cell were alive when its draw is at most the probability.
new_inclusive(w, h, initial_probability, draws) ==
    LET width_ == unwrap_or(w, 64)
        height_ == unwrap_or(h, 64)
        p == unwrap_or(initial_probability, 0)
        cells_ == with_capacity(width_ * height_)
    IN [width |-> width_,
        height |-> height_,
        cells |-> [i \in 1..Len(cells_) |-> draws[i] <= p],
        generation |-> 0]

\* Universe::new.  initial_probability and the random draws are in halves:
\* rng.gen::<f64>() is in [0, 1), so a draw is 0 (0.0) or 1 (0.5), and
\* draws[i] is the draw for bit i - 1.
new(w, h, initial_probability, draws) ==
    LET width_ == unwrap_or(w, 64)
        height_ == unwrap_or(h, 64)
        p == unwrap_or(initial_probability, 0)
        cells_ == with_capacity(width_ * height_)
    IN [width |-> width_,
        height |-> height_,
        cells |-> [i \in 1..Len(cells_) |-> draws[i] < p],
        generation |-> 0]

\* population, if it returned the number of cells.
population_len(self) == Len(self.cells)

population(self) == count_ones(self.cells)

\* get_cells, if it pushed the bits last to first.
get_cells_reversed(self) ==
    [i \in 1..Len(self.cells) |->
        IF self.cells[Len(self.cells) + 1 - i] THEN 1 ELSE 0]

get_cells(self) == [i \in 1..Len(self.cells) |-> IF self.cells[i] THEN 1 ELSE 0]

\* get_index, if it took the remainder without adding a whole row/column.
get_index_unwrapped(self, row, column) ==
    LET h == self.height
        w == self.width
    IN IF h = 0 \/ w = 0
       THEN [ok |-> FALSE, index |-> as_usize(0)]
       ELSE LET row_ == Rem(row, h)
                column_ == Rem(column, w)
            IN [ok |-> TRUE, index |-> as_usize(row_ * w + column_)]

\* Universe::get_index, as [ok, index]: ok is FALSE when the remainder's
\* divisor is zero.
get_index(self, row, column) ==
    LET h == self.height
        w == self.width
    IN IF h = 0 \/ w = 0
       THEN [ok |-> FALSE, index |-> as_usize(0)]
       ELSE LET row_ == Rem(row + h, h)
                column_ == Rem(column + w, w)
            IN [ok |-> TRUE, index |-> as_usize(row_ * w + column_)]

\* neighbour_bit, if it did not skip the cell itself.
neighbour_bit_with_self(self, row, column, dr, dc) ==
    LET row_index == row + dr
        column_index == column + dc
    IN IF bit_at(self.cells, get_index(self, row_index, column_index).index)
       THEN 1 ELSE 0

\* Universe::count_living_neighbours: the closure body for one (dr, dc),
\* then the two nested for_each over deltas = [-1, 0, 1].
neighbour_bit(self, row, column, dr, dc) ==
    IF dr = 0 /\ dc = 0 THEN 0
    ELSE LET row_index == row + dr
             column_index == column + dc
         IN IF bit_at(self.cells, get_index(self, row_index, column_index).index)
            THEN 1 ELSE 0

deltas == <<-1, 0, 1>>

RECURSIVE count_over(_, _, _, _)
count_over(self, row, column, k) ==
    IF k > 9 THEN 0
    ELSE neighbour_bit(self, row, column,
                       deltas[((k - 1) \div 3) + 1], deltas[((k - 1) % 3) + 1])
         + count_over(self, row, column, k + 1)

\* count_living_neighbours, if it counted each live cell that some offset
\* reaches once.
count_living_neighbours_distinct(self, row, column) ==
    Cardinality({i \in 1..Len(self.cells) :
        /\ self.cells[i]
        /\ \E dr \in {-1, 0, 1}, dc \in {-1, 0, 1} :
               /\ ~(dr = 0 /\ dc = 0)
               /\ get_index(self, row + dr, column + dc).index.mag + 1 = i})

count_living_neighbours(self, row, column) == count_over(self, row, column, 1)

\* Universe::get_next_cell_state
get_next_cell_state(living_neighbour_count, current_state) ==
    IF ~current_state
    THEN living_neighbour_count = 3
    ELSE living_neighbour_count = 2 \/ living_neighbour_count = 3

\* tick_cell, if it read the buffer it writes (an update in place).
tick_cell_in_place(self, next, r, c) ==
    LET index == get_index(self, r, c)
        written == [self EXCEPT !.cells = next]
    IN IF ~index.ok THEN [ok |-> FALSE, bits |-> next]
       ELSE LET neighbours_alive == count_living_neighbours(written, r, c)
            IN bit_set(next, index.index,
                       get_next_cell_state(neighbours_alive,
                                           bit_at(next, index.index)))

\* Universe::tick: the closure body for one (r, c), writing into next; then
\* the loops over 0..height and 0..width, as [ok, bits]; then the whole
\* method, as [ok, self].  next is a local: a panic leaves self as it was.
tick_cell(self, next, r, c) ==
    LET index == get_index(self, r, c)
    IN IF ~index.ok THEN [ok |-> FALSE, bits |-> next]
       ELSE LET neighbours_alive == count_living_neighbours(self, r, c)
            IN bit_set(next, index.index,
                       get_next_cell_state(neighbours_alive,
                                           bit_at(self.cells, index.index)))

RECURSIVE tick_columns(_, _, _, _)
tick_columns(self, next, r, c) ==
    IF c >= self.width THEN [ok |-> TRUE, bits |-> next]
    ELSE LET res == tick_cell(self, next, r, c)
         IN IF res.ok THEN tick_columns(self, res.bits, r, c + 1) ELSE res

RECURSIVE tick_rows(_, _, _)
\* tick_rows, if the loop ran over the rows 0..=height.
tick_rows_inclusive(self, next, r) ==
    IF r > self.height THEN [ok |-> TRUE, bits |-> next]
    ELSE LET res == tick_columns(self, next, r, 0)
         IN IF res.ok THEN tick_rows(self, res.bits, r + 1) ELSE res

tick_rows(self, next, r) ==
    IF r >= self.height THEN [ok |-> TRUE, bits |-> next]
    ELSE LET res == tick_columns(self, next, r, 0)
         IN IF res.ok THEN tick_rows(self, res.bits, r + 1) ELSE res

\* tick, if it left the generation counter alone.
tick_no_increment(self) ==
    LET res == tick_rows(self, self.cells, 0)
    IN IF res.ok
       THEN [ok |-> TRUE, self |-> [self EXCEPT !.cells = res.bits]]
       ELSE [ok |-> FALSE, self |-> self]

\* tick, if its loop over the rows began at row 1.
tick_skip_row_zero(self) ==
    LET res == tick_rows(self, self.cells, 1)
    IN IF res.ok
       THEN [ok |-> TRUE,
             self |-> [self EXCEPT !.cells = res.bits,
                                   !.generation = self.generation + 1]]
       ELSE [ok |-> FALSE, self |-> self]

tick(self) ==
    LET res == tick_rows(self, self.cells, 0)
    IN IF res.ok
       THEN [ok |-> TRUE,
             self |-> [self EXCEPT !.cells = res.bits,
                                   !.generation = self.generation + 1]]
       ELSE [ok |-> FALSE, self |-> self]

\* What a method that writes self.cells gives, as [ok, self], from the
\* [ok, bits] of the bit set's method.
stored(self, res) == [ok |-> res.ok, self |-> [self EXCEPT !.cells = res.bits]]

\* Universe::set_cell, as [ok, self]
set_cell(self, row, column, state) ==
    LET index == get_index(self, row, column)
    IN IF ~index.ok THEN [ok |-> FALSE, self |-> self]
       ELSE stored(self, bit_set(self.cells, index.index, state))

\* Universe::toggle_cell, as [ok, self]
toggle_cell(self, row, column) ==
    LET index == get_index(self, row, column)
    IN IF ~index.ok THEN [ok |-> FALSE, self |-> self]
       ELSE stored(self, bit_toggle(self.cells, index.index))

\* Universe::set_cells, as [ok, self]: the length test, then the loop over
\* cells.iter().enumerate() (i is the loop's i + 1).
RECURSIVE set_cells_loop(_, _, _)
set_cells_loop(bits, vec, i) ==
    IF i > Len(vec) THEN [ok |-> TRUE, bits |-> bits]
    ELSE LET res == bit_set(bits, as_usize(i - 1), vec[i] > 0)
         IN IF res.ok THEN set_cells_loop(res.bits, vec, i + 1) ELSE res

\* set_cells, if it had no length test.
set_cells_unchecked(self, vec) ==
    stored(self, set_cells_loop(self.cells, vec, 1))

\* set_cells, if it took the vector as the new bit set.
set_cells_replace(self, vec) ==
    [ok |-> TRUE,
     self |-> [self EXCEPT !.cells = [i \in 1..Len(vec) |-> vec[i] > 0]]]

set_cells(self, vec) ==
    IF Len(vec) # self.width * self.height
    THEN [ok |-> FALSE, self |-> self]
    ELSE stored(self, set_cells_loop(self.cells, vec, 1))

\* The loops shared by add_glider and add_pulsar: for r in 0..box_size, for
\* c in 0..box_size, set_cell(row + r - nudge, column + c - nudge, bitmap > 0),
\* as [ok, self].  A panic in set_cell stops both loops with the earlier
\* writes in place.
RECURSIVE stamp_columns(_, _, _, _, _, _, _, _)
\* stamp_columns, if it wrote only the bitmap's 1 cells.
stamp_columns_ones_only(self, bitmap, box_size, nudge, row, column, r, c) ==
    IF c >= box_size THEN [ok |-> TRUE, self |-> self]
    ELSE IF bitmap[r * box_size + c + 1] > 0
    THEN LET res == set_cell(self, row + r - nudge, column + c - nudge, TRUE)
         IN IF res.ok
            THEN stamp_columns(res.self, bitmap, box_size, nudge, row, column,
                               r, c + 1)
            ELSE res
    ELSE stamp_columns(self, bitmap, box_size, nudge, row, column, r, c + 1)

stamp_columns(self, bitmap, box_size, nudge, row, column, r, c) ==
    IF c >= box_size THEN [ok |-> TRUE, self |-> self]
    ELSE LET res == set_cell(self, row + r - nudge, column + c - nudge,
                             bitmap[r * box_size + c + 1] > 0)
         IN IF res.ok
            THEN stamp_columns(res.self, bitmap, box_size, nudge, row, column,
                               r, c + 1)
            ELSE res

RECURSIVE stamp_rows(_, _, _, _, _, _, _)
stamp_rows(self, bitmap, box_size, nudge, row, column, r) ==
    IF r >= box_size THEN [ok |-> TRUE, self |-> self]
    ELSE LET res == stamp_columns(self, bitmap, box_size, nudge, row, column,
                                  r, 0)
         IN IF res.ok
            THEN stamp_rows(res.self, bitmap, box_size, nudge, row, column,
                            r + 1)
            ELSE res

\* glider, if it took the orientation modulo 4.
glider_modulo(orientation) ==
    CASE orientation % 4 = 0 -> <<0, 1, 0,
                                  0, 0, 1,
                                  1, 1, 1>>
      [] orientation % 4 = 1 -> <<1, 0, 0,
                                  1, 0, 1,
                                  1, 1, 0>>
      [] orientation % 4 = 2 -> <<1, 1, 1,
                                  1, 0, 0,
                                  0, 1, 0>>
      [] OTHER -> <<0, 1, 1,
                    1, 0, 1,
                    0, 0, 1>>

\* The match on orientation in add_glider
glider(orientation) ==
    CASE orientation = 0 -> <<0, 1, 0,
                              0, 0, 1,
                              1, 1, 1>>
      [] orientation = 1 -> <<1, 0, 0,
                              1, 0, 1,
                              1, 1, 0>>
      [] orientation = 2 -> <<1, 1, 1,
                              1, 0, 0,
                              0, 1, 0>>
      [] orientation = 3 -> <<0, 1, 1,
                              1, 0, 1,
                              0, 0, 1>>
      [] OTHER -> <<0, 1, 0,
                    0, 0, 1,
                    1, 1, 1>>

\* Universe::add_glider, as [ok, self]
add_glider(self, row, column, orientation) ==
    stamp_rows(self, glider(orientation), 3, 1, row, column, 0)

pulsar ==
    <<0, 0, 0, 0, 0, 0, 0, 0, 0, 0, 0, 0, 0, 0, 0,
      0, 0, 0, 1, 1, 1, 0, 0, 0, 1, 1, 1, 0, 0, 0,
      0, 0, 0, 0, 0, 0, 0, 0, 0, 0, 0, 0, 0, 0, 0,
      0, 1, 0, 0, 0, 0, 1, 0, 1, 0, 0, 0, 0, 1, 0,
      0, 1, 0, 0, 0, 0, 1, 0, 1, 0, 0, 0, 0, 1, 0,
      0, 1, 0, 0, 0, 0, 1, 0, 1, 0, 0, 0, 0, 1, 0,
      0, 0, 0, 1, 1, 1, 0, 0, 0, 1, 1, 1, 0, 0, 0,
      0, 0, 0, 0, 0, 0, 0, 0, 0, 0, 0, 0, 0, 0, 0,
      0, 0, 0, 1, 1, 1, 0, 0, 0, 1, 1, 1, 0, 0, 0,
      0, 1, 0, 0, 0, 0, 1, 0, 1, 0, 0, 0, 0, 1, 0,
      0, 1, 0, 0, 0, 0, 1, 0, 1, 0, 0, 0, 0, 1, 0,
      0, 1, 0, 0, 0, 0, 1, 0, 1, 0, 0, 0, 0, 1, 0,
      0, 0, 0, 0, 0, 0, 0, 0, 0, 0, 0, 0, 0, 0, 0,
      0, 0, 0, 1, 1, 1, 0, 0, 0, 1, 1, 1, 0, 0, 0,
      0, 0, 0, 0, 0, 0, 0, 0, 0, 0, 0, 0, 0, 0, 0>>

\* Universe::add_pulsar, as [ok, self]
add_pulsar(self, row, column) ==
    stamp_rows(self, pulsar, 15, 7, row, column, 0)

(***************************************************************************)
(* The state machine.                                                      *)
(***************************************************************************)
\* The arguments of new: a width and a height are given; the probability
\* is left out, 0.0, 0.5 or 1.0.
Probabilities == {None, Some(0), Some(1), Some(2)}
Draws == {0, 1}

\* The state after new(w, h, p) with the random draws `draws`.
Created(w, h, p, draws) ==
    LET u == new(w, h, p, draws)
    IN /\ width = u.width
       /\ height = u.height
       /\ cells = u.cells
       /\ generation = u.generation
       /\ op = "new"
       /\ outcome = "ok"
       /\ ticks = 0

Constructed(max_width, max_height) ==
    \E w \in 0..max_width, h \in 0..max_height, p \in Probabilities :
        \E draws \in [1..(w * h) -> Draws] :
            Created(Some(w), Some(h), p, draws)

Init == Constructed(MaxWidth, MaxHeight)

Running == outcome = "ok"

\* The cells of the grid, and the coordinates a caller passes: every cell,
\* and coordinates one step and more than a whole grid outside it.
InRange == (0..(height - 1)) \X (0..(width - 1))
Outside == {<<-1, -1>>, <<height, width>>, <<-height - 1, 0>>,
            <<1, -width - 1>>}
Coordinates == InRange \cup Outside

\* The orientations a caller passes: the four rotations and two other bytes.
Orientations == {0, 1, 2, 3, 4, 255}

\* The byte vectors a caller passes to set_cells: all 0, all 1, 1 and 0 in
\* turn, and one 255 followed by 0s, of the grid's size and one off it.
vec_of(n, k) ==
    [i \in 1..n |-> CASE k = 0 -> 0
                      [] k = 1 -> 1
                      [] k = 2 -> i % 2
                      [] OTHER -> IF i = 1 THEN 255 ELSE 0]
Lengths == {n \in {width * height - 1, width * height, width * height + 1} :
              n >= 0}
Vectors == {vec_of(n, k) : n \in Lengths, k \in 0..3}

\* The state after the call `name` gave res = [ok, self].
Returned(name, res) ==
    /\ width' = res.self.width
    /\ height' = res.self.height
    /\ cells' = res.self.cells
    /\ generation' = res.self.generation
    /\ outcome' = IF res.ok THEN "ok" ELSE "panic"
    /\ op' = name
    /\ ticks' = IF name = "tick" /\ res.ok THEN ticks + 1 ELSE ticks

Tick(max_generation) ==
    /\ Running
    /\ generation < max_generation
    /\ Returned("tick", tick(Self))

SetCell(row, column, state) ==
    /\ Running
    /\ Returned("set_cell", set_cell(Self, row, column, state))

ToggleCell(row, column) ==
    /\ Running
    /\ Returned("toggle_cell", toggle_cell(Self, row, column))

SetCells(vec) ==
    /\ Running
    /\ Returned("set_cells", set_cells(Self, vec))

\* set_cells(get_cells())
SetCellsGetCells ==
    /\ Running
    /\ Returned("set_cells(get_cells())", set_cells(Self, get_cells(Self)))

AddGlider(row, column, orientation) ==
    /\ Running
    /\ Returned("add_glider", add_glider(Self, row, column, orientation))

AddPulsar(row, column) ==
    /\ Running
    /\ Returned("add_pulsar", add_pulsar(Self, row, column))

\* width(), height(), generation(), population(), get_cells(): &self
Query ==
    /\ Running
    /\ op' = "query"
    /\ UNCHANGED <<width, height, cells, generation, outcome, ticks>>

Next ==
    \/ Tick(MaxGen)
    \/ \E rc \in Coordinates, state \in BOOLEAN : SetCell(rc[1], rc[2], state)
    \/ \E rc \in Coordinates : ToggleCell(rc[1], rc[2])
    \/ \E vec \in Vectors : SetCells(vec)
    \/ SetCellsGetCells
    \/ \E rc \in Coordinates, orientation \in Orientations :
           AddGlider(rc[1], rc[2], orientation)
    \/ \E rc \in Coordinates : AddPulsar(rc[1], rc[2])
    \/ Query

Spec == Init /\ [][Next]_vars

\* tick() alone, from every grid of up to MaxTickWidth x MaxTickHeight.
InitTick == Constructed(MaxTickWidth, MaxTickHeight)
NextTick == Tick(MaxTicks)
SpecTick == InitTick /\ [][NextTick]_vars
\* A universe seeded as tests/web.rs seeds it: new(width, height, None),
\* then set_cells with a vector that is 1 at the indices in alive.
Seeded(w, h, alive) ==
    LET u == new(Some(w), Some(h), None, [i \in 1..(w * h) |-> 0])
        res == set_cells(u, [i \in 1..(w * h) |-> IF (i - 1) \in alive THEN 1 ELSE 0])
    IN /\ width = res.self.width
       /\ height = res.self.height
       /\ cells = res.self.cells
       /\ generation = res.self.generation
       /\ op = "set_cells"
       /\ outcome = IF res.ok THEN "ok" ELSE "panic"
       /\ ticks = 0

\* tick() alone, from a horizontal line of 3 cells centred on any cell of
\* the 5 x 5 grid.
InitBlinker ==
    \E r \in 0..(BlinkerSide - 1), c \in 0..(BlinkerSide - 1) :
        Seeded(BlinkerSide, BlinkerSide,
               {r * BlinkerSide + ((c + d) % BlinkerSide) : d \in {-1, 0, 1}})
NextBlinker == Tick(MaxBlinkerTicks)
SpecBlinker == InitBlinker /\ [][NextBlinker]_vars

\* tick() alone, from a 2 x 2 block with its top left corner on any cell
\* of a grid of 4 to MaxBlockSide cells a side.
InitBlock ==
    \E w \in 4..MaxBlockSide, h \in 4..MaxBlockSide :
        \E r \in 0..(h - 1), c \in 0..(w - 1) :
            Seeded(w, h, {((r + dr) % h) * w + ((c + dc) % w) :
                            dr \in {0, 1}, dc \in {0, 1}})
NextBlock == Tick(MaxBlockTicks)
SpecBlock == InitBlock /\ [][NextBlock]_vars

\* tick alone, on the grids whose translations are compared.
InitShift == Constructed(MaxShiftWidth, MaxShiftHeight)
NextShift == Tick(MaxShiftTicks)
SpecShift == InitShift /\ [][NextShift]_vars

\* add_glider(1, 1, _) alone, from every 3 x 3 grid.
InitGlider ==
    \E draws \in [1..(GliderSide * GliderSide) -> Draws] :
        Created(Some(GliderSide), Some(GliderSide), Some(1), draws)
NextGlider == \E orientation \in Orientations : AddGlider(1, 1, orientation)
SpecGlider == InitGlider /\ [][NextGlider]_vars

\* new with every combination of given and omitted arguments, then queries.
\* The generator's draws are one of four streams: all 0.0, all 0.5, and the
\* two that alternate.
Sides == {None} \cup {Some(n) : n \in 0..MaxNewSide}
stream(k) ==
    [i \in Nat |-> CASE k = 0 -> 0 [] k = 1 -> 1 [] k = 2 -> i % 2
                     [] OTHER -> (i + 1) % 2]
Streams == 0..3
InitNew ==
    \E w \in Sides, h \in Sides, p \in Probabilities, k \in Streams :
        Created(w, h, p, stream(k))
NextNew == Query
SpecNew == InitNew /\ [][NextNew]_vars

(***************************************************************************)
(* The grid as the specification describes it: a torus of height rows and  *)
(* width columns, row-major, with the mathematical modulus (x % n is in    *)
(* 0..n-1 for every integer x).                                            *)
(***************************************************************************)
SelfNext == [width |-> width', height |-> height', cells |-> cells',
             generation |-> generation']

WrappedIndex(row, column) == (row % height) * width + (column % width)

Alive(grid, row, column) == grid[WrappedIndex(row, column) + 1]

Offsets == ({-1, 0, 1} \X {-1, 0, 1}) \ {<<0, 0>>}

MooreCount(grid, row, column) ==
    Cardinality({d \in Offsets : Alive(grid, row + d[1], column + d[2])})

Rule(alive, count) ==
    \/ alive /\ count \in {2, 3}
    \/ ~alive /\ count = 3

(***************************************************************************)
(* C1.  On a grid with width > 0 and height > 0, tick() succeeds and the   *)
(* new state of every cell (r, c), row 0 and column 0 included, is the     *)
(* transition rule applied to its state before the tick and the number of  *)
(* alive cells among its 8 wrapped neighbours before the tick.             *)
(***************************************************************************)
C1_TickRule ==
    [][(op' = "tick" /\ width > 0 /\ height > 0) =>
          /\ outcome' = "ok"
          /\ Len(cells') = Len(cells)
          /\ \A rc \in InRange :
                Alive(cells', rc[1], rc[2])
                    = Rule(Alive(cells, rc[1], rc[2]),
                           MooreCount(cells, rc[1], rc[2]))]_vars

\* tick() has run on a 3 x 3 grid and left some cells alive and some dead.
C1_Witness ==
    /\ op = "tick" /\ outcome = "ok"
    /\ width = 3 /\ height = 3
    /\ cells[1] /\ ~cells[2]

(***************************************************************************)
(* C2.  On a grid with width > 0 and height > 0, set_cell and toggle_cell  *)
(* succeed for every integer row and column, and act on the cell with the  *)
(* index (row mod height) * width + (column mod width).                    *)
(***************************************************************************)
C2_AnyCoordinate ==
    [][\A rc \in Coordinates :
          LET i == WrappedIndex(rc[1], rc[2]) + 1
          IN (width > 0 /\ height > 0) =>
                /\ \A state \in BOOLEAN :
                      SetCell(rc[1], rc[2], state) =>
                          /\ outcome' = "ok"
                          /\ cells' = [cells EXCEPT ![i] = state]
                /\ ToggleCell(rc[1], rc[2]) =>
                      /\ outcome' = "ok"
                      /\ cells' = [cells EXCEPT ![i] = ~cells[i]]]_vars

(***************************************************************************)
(* C3.  generation() is the number of tick() calls that have returned: 0   *)
(* after construction, one more after each tick(), and the same after any  *)
(* other call.                                                             *)
(***************************************************************************)
C3_GenerationCountsTicks == generation = ticks

\* Two ticks have been counted and another method was called since.
C3_Witness ==
    /\ ticks = 2
    /\ outcome = "ok"
    /\ op \in {"set_cell", "toggle_cell", "set_cells", "add_glider",
               "add_pulsar", "query"}

(***************************************************************************)
(* C4.  set_cells with a vector whose length is not width * height fails   *)
(* and writes nothing: the cells, the generation and the dimensions are    *)
(* as before the call.                                                     *)
(***************************************************************************)
C4_SetCellsMismatch ==
    [][op' = "set_cells" =>
          \A vec \in Vectors :
              (Len(vec) # width * height /\ SetCells(vec)) =>
                  /\ outcome' = "panic"
                  /\ cells' = cells
                  /\ generation' = generation
                  /\ width' = width
                  /\ height' = height]_vars

\* set_cells has failed on a grid with alive cells and a generation above 0.
C4_Witness ==
    /\ op = "set_cells" /\ outcome = "panic"
    /\ population(Self) > 0
    /\ generation > 0

(***************************************************************************)
(* C5.  In every reachable state set_cells(get_cells()) succeeds and       *)
(* changes nothing: get_cells(), population() and generation() are after   *)
(* the call what they were before it.                                      *)
(***************************************************************************)
C5_RoundTrip ==
    [][op' = "set_cells(get_cells())" =>
          /\ outcome' = "ok"
          /\ get_cells(SelfNext) = get_cells(Self)
          /\ population(SelfNext) = population(Self)
          /\ generation' = generation]_vars

\* set_cells(get_cells()) has run on a grid with alive and dead cells.
C5_Witness ==
    /\ op = "set_cells(get_cells())" /\ outcome = "ok"
    /\ population(Self) > 0
    /\ population(Self) < width * height
    /\ generation > 0

(***************************************************************************)
(* C6.  get_index is periodic: on a grid with width > 0 and height > 0,    *)
(* get_index(row, column) = get_index(row + k * height, column + k * width)*)
(* for every integer row, column and k, negative k included.               *)
(***************************************************************************)
C6_Periodic ==
    (width > 0 /\ height > 0) =>
        \A row \in (-1)..height, column \in (-1)..width, k \in (-2)..2 :
            get_index(Self, row, column)
                = get_index(Self, row + k * height, column + k * width)

(***************************************************************************)
(* C7.  In every reachable state, after failed calls too, the grid holds   *)
(* width * height cells and get_cells() is a vector of width * height      *)
(* values, each 0 or 1, whose element r * width + c is 1 exactly when the  *)
(* cell at row r and column c is alive; width and height never change.     *)
(***************************************************************************)
C7_Shape ==
    /\ Len(cells) = width * height
    /\ LET v == get_cells(Self)
       IN /\ Len(v) = width * height
          /\ \A i \in 1..Len(v) : v[i] \in {0, 1}
          /\ \A rc \in InRange :
                (v[rc[1] * width + rc[2] + 1] = 1)
                    <=> bit_at(cells, get_index(Self, rc[1], rc[2]).index)

C7_SizeInvariant ==
    /\ []C7_Shape
    /\ [][width' = width /\ height' = height]_vars

\* A set_cells call has failed on a 2 x 2 grid after a tick.
C7_Witness ==
    /\ op = "set_cells" /\ outcome = "panic"
    /\ width = 2 /\ height = 2
    /\ ticks = 1
(***************************************************************************)
(* C8.  On a grid with width > 0 and height > 0, smaller than the bitmap   *)
(* or not, and for every target cell (row, column) of the grid, add_glider *)
(* and add_pulsar succeed and write each bitmap cell (r, c) to the grid    *)
(* cell ((row + r - nudge) mod height, (column + c - nudge) mod width),    *)
(* with nudge 1 for the glider and 7 for the pulsar.                       *)
(***************************************************************************)
\* The grid after the bitmap's cells were written in row-major order, each
\* to its wrapped cell: a grid cell holds the last bitmap cell written to
\* it, or what it held if none was.
Stamped(bitmap, box_size, nudge, row, column) ==
    [i \in 1..(width * height) |->
        LET hits == {k \in 0..(box_size * box_size - 1) :
                        WrappedIndex(row + (k \div box_size) - nudge,
                                     column + (k % box_size) - nudge) = i - 1}
        IN IF hits = {} THEN cells[i]
           ELSE bitmap[(CHOOSE k \in hits : \A j \in hits : j <= k) + 1] > 0]

\* The glider's half of C8 alone.
C8_GliderWraps ==
    [][\A rc \in InRange, orientation \in Orientations :
          AddGlider(rc[1], rc[2], orientation) =>
              /\ outcome' = "ok"
              /\ cells' = Stamped(glider(orientation), 3, 1, rc[1], rc[2])]_vars

C8_StampWraps ==
    [][\A rc \in InRange :
          /\ \A orientation \in Orientations :
                AddGlider(rc[1], rc[2], orientation) =>
                    /\ outcome' = "ok"
                    /\ cells' = Stamped(glider(orientation), 3, 1, rc[1], rc[2])
          /\ AddPulsar(rc[1], rc[2]) =>
                /\ outcome' = "ok"
                /\ cells' = Stamped(pulsar, 15, 7, rc[1], rc[2])]_vars

(***************************************************************************)
(* C9.  On the 5 x 5 torus a horizontal line of 3 alive cells centred on   *)
(* any cell (r, c), all other cells dead, becomes after one tick() exactly *)
(* the vertical line of 3 centred on (r, c), rows wrapped, and after a     *)
(* second tick() exactly the horizontal line again.                        *)
(***************************************************************************)
HorizontalLine(row, column) ==
    [i \in 1..(width * height) |->
        \E d \in {-1, 0, 1} : i - 1 = WrappedIndex(row, column + d)]

VerticalLine(row, column) ==
    [i \in 1..(width * height) |->
        \E d \in {-1, 0, 1} : i - 1 = WrappedIndex(row + d, column)]

C9_Lines ==
    \E rc \in InRange :
        cells = IF generation % 2 = 0
                THEN HorizontalLine(rc[1], rc[2])
                ELSE VerticalLine(rc[1], rc[2])

C9_Blinker ==
    /\ []C9_Lines
    /\ [][op' = "tick" =>
             /\ outcome' = "ok"
             /\ \A rc \in InRange :
                   /\ cells = HorizontalLine(rc[1], rc[2])
                          => cells' = VerticalLine(rc[1], rc[2])
                   /\ cells = VerticalLine(rc[1], rc[2])
                          => cells' = HorizontalLine(rc[1], rc[2])]_vars

\* The line (4,3), (4,4), (4,0) of tests/web.rs is back after two ticks.
C9_Witness ==
    /\ op = "tick" /\ outcome = "ok" /\ ticks = 2
    /\ cells = [i \in 1..25 |-> i - 1 \in {20, 23, 24}]

(***************************************************************************)
(* C10.  On a torus of at least 4 x 4 cells whose only alive cells are a   *)
(* 2 x 2 block at any position, across an edge or not, tick() leaves every *)
(* cell as it was and adds 1 to generation(), however often it is called.  *)
(***************************************************************************)
Block(row, column) ==
    [i \in 1..(width * height) |->
        \E dr \in {0, 1}, dc \in {0, 1} :
            i - 1 = WrappedIndex(row + dr, column + dc)]

C10_IsBlock == \E rc \in InRange : cells = Block(rc[1], rc[2])

C10_StillLife ==
    /\ []C10_IsBlock
    /\ [][op' = "tick" =>
             /\ outcome' = "ok"
             /\ cells' = cells
             /\ generation' = generation + 1]_vars

\* Two ticks have run on the 4 x 4 grid whose block lies across both edges.
C10_Witness ==
    /\ op = "tick" /\ outcome = "ok" /\ ticks = 2
    /\ width = 4 /\ height = 4
    /\ cells = Block(3, 3)
(***************************************************************************)
(* C11.  add_glider(1, 1, orientation) on a 3 x 3 grid writes all 9 cells, *)
(* the bitmap's 0 cells as dead, whatever the grid held: get_cells() is    *)
(* then [0,1,0, 0,0,1, 1,1,1] for orientation 0 and [1,0,0, 1,0,1, 1,1,0]  *)
(* for orientation 1.                                                      *)
(***************************************************************************)
C11_GliderOverwrites ==
    [][op' = "add_glider" =>
          /\ AddGlider(1, 1, 0) =>
                /\ outcome' = "ok"
                /\ get_cells(SelfNext) = <<0, 1, 0, 0, 0, 1, 1, 1, 1>>
          /\ AddGlider(1, 1, 1) =>
                /\ outcome' = "ok"
                /\ get_cells(SelfNext) = <<1, 0, 0, 1, 0, 1, 1, 1, 0>>]_vars

\* A glider of orientation 1 has been stamped on the 3 x 3 grid.
C11_Witness ==
    /\ op = "add_glider" /\ outcome = "ok"
    /\ width = 3 /\ height = 3
    /\ get_cells(Self) = <<1, 0, 0, 1, 0, 1, 1, 1, 0>>

(***************************************************************************)
(* C12.  An orientation outside 0..3 is no error of its own: add_glider    *)
(* with it does, from the same state and for the same target, exactly      *)
(* what add_glider with orientation 0 does, and succeeds for every target  *)
(* cell of the grid; every byte from 4 to 255 selects orientation 0's      *)
(* bitmap.                                                                 *)
(***************************************************************************)
C12_SameBitmap == \A orientation \in 4..255 : glider(orientation) = glider(0)

C13_Ones == {i \in 1..Len(get_cells(Self)) : get_cells(Self)[i] = 1}

C13_PopulationCounts ==
    /\ population(Self) = Cardinality(C13_Ones)
    /\ 0 <= population(Self)
    /\ population(Self) <= width * height

C13_Population ==
    /\ []C13_PopulationCounts
    /\ [][op' = "query" =>
             UNCHANGED <<width, height, cells, generation, outcome>>]_vars

\* The population of a 2 x 2 grid with two live cells has been read.
C13_Witness ==
    /\ op = "query"
    /\ width = 2 /\ height = 2
    /\ population(Self) = 2
    /\ get_cells(Self) = <<1, 0, 0, 1>>
(***************************************************************************)
(* C14.  A universe constructed with initial_probability omitted or 0 has  *)
(* every cell dead and generation 0; with probability 1 every cell is      *)
(* alive; width and height are 64 each when omitted and as given           *)
(* otherwise.                                                              *)
(***************************************************************************)
C14_Defaults ==
    op = "new" =>
        \A w \in Sides, h \in Sides, p \in Probabilities, k \in Streams :
            Created(w, h, p, stream(k)) =>
                /\ generation = 0
                /\ width = (IF w = None THEN 64 ELSE w.val)
                /\ height = (IF h = None THEN 64 ELSE h.val)
                /\ Len(get_cells(Self)) = width * height
                /\ p \in {None, Some(0)} =>
                       /\ get_cells(Self) = [i \in 1..(width * height) |-> 0]
                       /\ population(Self) = 0
                /\ p = Some(2) =>
                       /\ get_cells(Self) = [i \in 1..(width * height) |-> 1]
                       /\ population(Self) = width * height

\* new(None, None, None): the 64 x 64 grid with no live cell.
C14_Witness ==
    /\ op = "new"
    /\ width = 64 /\ height = 64 /\ generation = 0
    /\ Len(cells) = 4096
    /\ \A i \in 1..4096 : ~cells[i]
C15_Frame ==
    [][op' \in {"set_cell", "toggle_cell"} =>
          /\ UNCHANGED <<width, height, generation>>
          /\ outcome' = "panic" => UNCHANGED cells
          /\ \A rc \in Coordinates :
                LET i == get_index(Self, rc[1], rc[2]).index.mag + 1
                IN /\ \A state \in BOOLEAN :
                          SetCell(rc[1], rc[2], state) /\ outcome' = "ok" =>
                              /\ cells' = [cells EXCEPT ![i] = state]
                              /\ set_cell(SelfNext, rc[1], rc[2], state)
                                     = [ok |-> TRUE, self |-> SelfNext]
                   /\ ToggleCell(rc[1], rc[2]) /\ outcome' = "ok" =>
                          /\ cells' = [cells EXCEPT ![i] = ~cells[i]]
                          /\ toggle_cell(SelfNext, rc[1], rc[2])
                                 = [ok |-> TRUE, self |-> Self]]_vars
(***************************************************************************)
(* C16.  On a grid with width > 0 and height > 0, count_living_neighbours  *)
(* of every cell is in 0..8 and is the number of the 8 offsets whose       *)
(* wrapped target is alive, a cell reached by several offsets counting     *)
(* once for each; an alive cell on a 1 x 1 grid has count 8 and is dead    *)
(* after tick(); tick() succeeds on every such grid, however small.        *)
(***************************************************************************)
C16_Counts ==
    (Running /\ width > 0 /\ height > 0) =>
        /\ \A rc \in InRange :
              LET n == count_living_neighbours(Self, rc[1], rc[2])
              IN /\ n \in 0..8
                 /\ n = MooreCount(cells, rc[1], rc[2])
        /\ (width = 1 /\ height = 1 /\ cells[1]) =>
               count_living_neighbours(Self, 0, 0) = 8

C16_NeighbourCount ==
    /\ []C16_Counts
    /\ [][(op' = "tick" /\ width > 0 /\ height > 0) =>
             /\ outcome' = "ok"
             /\ (width = 1 /\ height = 1 /\ cells[1]) => ~cells'[1]]_vars

\* After a tick, on a grid narrower or shorter than 3, a live cell has more
\* live neighbours than the grid has live cells.
C16_Witness ==
    /\ op = "tick" /\ outcome = "ok"
    /\ width > 0 /\ height > 0
    /\ width < 3 \/ height < 3
    /\ \E rc \in InRange :
          /\ Alive(cells, rc[1], rc[2])
          /\ count_living_neighbours(Self, rc[1], rc[2]) > population(Self)
(***************************************************************************)
(* C17.  new with width 0 or height 0 returns a universe with no cells:    *)
(* get_cells() is empty and population() is 0.  tick() on it succeeds,     *)
(* leaves it without cells and adds 1 to the generation; set_cells with    *)
(* the empty vector succeeds.                                              *)
(***************************************************************************)
C17_NoCells ==
    (width = 0 \/ height = 0) =>
        /\ op = "new" => outcome = "ok"
        /\ get_cells(Self) = <<>>
        /\ population(Self) = 0

C17_EmptyGrid ==
    /\ []C17_NoCells
    /\ [][(width = 0 \/ height = 0) =>
             /\ op' = "tick" =>
                    /\ outcome' = "ok"
                    /\ get_cells(SelfNext) = <<>>
                    /\ generation' = generation + 1
                    /\ UNCHANGED <<width, height>>
             /\ SetCells(<<>>) =>
                    /\ outcome' = "ok"
                    /\ get_cells(SelfNext) = <<>>]_vars

\* tick() has returned on a universe of width 2 and height 0.
C17_Witness ==
    /\ op = "tick" /\ outcome = "ok"
    /\ width = 2 /\ height = 0
    /\ generation = 1
    /\ get_cells(Self) = <<>>
(***************************************************************************)
(* C18.  tick() commutes with translation on the torus: for every grid     *)
(* with width > 0 and height > 0 and every shift (dr, dc), tick() of the   *)
(* shifted grid is the shifted tick() of the grid.                         *)
(***************************************************************************)
\* grid moved by dr rows and dc columns with wrap-around: the cell at
\* (r, c) holds what was at (r - dr, c - dc).
Shifted(grid, dr, dc) ==
    [i \in 1..(width * height) |->
        Alive(grid, ((i - 1) \div width) - dr, ((i - 1) % width) - dc)]

C18_TickCommutesWithShift ==
    (Running /\ width > 0 /\ height > 0) =>
        \A ticked \in {tick(Self)} :
            /\ ticked.ok
            /\ \A dr \in 0..(height - 1), dc \in 0..(width - 1) :
                  tick([Self EXCEPT !.cells = Shifted(cells, dr, dc)])
                      = [ok |-> TRUE,
                         self |-> [ticked.self EXCEPT
                                      !.cells = Shifted(ticked.self.cells,
                                                        dr, dc)]]

\* A grid reached by a tick that the next tick changes and that a shift by
\* one column changes.
C18_Witness ==
    /\ op = "tick" /\ outcome = "ok"
    /\ width = 3 /\ height = 2
    /\ tick(Self).self.cells # cells
    /\ Shifted(cells, 0, 1) # cells

====
